---------------------------- MODULE Spec2Model ----------------------------
(***************************************************************************)
(* Model of kiro-synth-core's delay effect (effects/delay.rs: DelayLine    *)
(* and Delay) and of its pitch-shift calculator                            *)
(* (oscillators/osc_pitch_shift.rs: OscPitchShift).                        *)
(*                                                                         *)
(* Values of the generic float type F are modelled as exact rationals      *)
(* <<n, d>> in lowest terms with d > 0.  The delay's inputs, feedback and  *)
(* mix are drawn from dyadic rationals of small magnitude, for which IEEE  *)
(* arithmetic is exact, so the rational result is the float result there.  *)
(***************************************************************************)
EXTENDS Integers, Sequences, FiniteSets

VARIABLES
  \* DelayLine (delay.rs:3-6)
  head, buffer,
  \* Delay (delay.rs:30-37)
  delay_samples, delay_seconds, feedback, mix, sample_rate,
  \* OscPitchShift (osc_pitch_shift.rs:11-22)
  octaves_shift, semitones_shift, cents_shift, pitch_bend, modulation,
  \* observation of the calls made so far
  last,     \* the latest update, get, process or multiplier call: [op, arg, ret]
  written,  \* the values passed to DelayLine::update, oldest first
  xs,       \* the inputs passed to Delay::process, oldest first
  ys,       \* the values returned by Delay::process, oldest first
  given     \* the latest argument given to each OscPitchShift setter

lineVars  == <<head, buffer>>
delayVars == <<delay_samples, delay_seconds, feedback, mix, sample_rate>>
pitchVars == <<octaves_shift, semitones_shift, cents_shift, pitch_bend, modulation>>
obsVars   == <<last, written, xs, ys, given>>
vars      == <<lineVars, delayVars, pitchVars, obsVars>>

---------------------------------------------------------------------------
(* Bounds *)

\* largest buffer length
MaxLen == 4
\* number of process calls in the freely interleaved specification
MaxCalls == 2

\* number of update calls on the bare delay line
MaxUpdates == MaxLen + 2
\* number of process calls once the parameters are held
MaxRun == 2 * MaxLen

---------------------------------------------------------------------------
(* The float type F as exact rationals *)

Abs(n) == IF n < 0 THEN -n ELSE n

RECURSIVE GCD(_, _)
GCD(a, b) == IF b = 0 THEN a ELSE GCD(b, a % b)

Norm(n, d) == LET g == GCD(Abs(n), d) IN <<n \div g, d \div g>>

\* F::val(i), F::from(i): an integer as a float
FVal(i) == <<i, 1>>
\* a literal n/d
FLit(n, d) == Norm(n, d)
FZero == FVal(0)

FAdd(a, b) == Norm(a[1] * b[2] + b[1] * a[2], a[2] * b[2])
FSub(a, b) == Norm(a[1] * b[2] - b[1] * a[2], a[2] * b[2])
FMul(a, b) == Norm(a[1] * b[1], a[2] * b[2])
FDiv(a, b) == IF b[1] > 0 THEN Norm(a[1] * b[2], a[2] * b[1])
                          ELSE Norm(-(a[1] * b[2]), a[2] * (-b[1]))

\* to_usize(): Some(truncation) for a value above -1, None otherwise
ToUsizeIsSome(a) == a[1] > -a[2]
ToUsize(a) == IF a[1] >= 0 THEN a[1] \div a[2] ELSE 0

Min(a, b) == IF a <= b THEN a ELSE b

---------------------------------------------------------------------------
(* DelayLine *)

\* buffer.len()
BufLen(buf) == Cardinality(DOMAIN buf)

\* get with the offset counted from the slot after head: get(1) reads buffer[head]
GetIndexFromHead(hd, buf, samples) ==
  LET offset == Min(BufLen(buf), samples)
  IN  (hd + 1 + BufLen(buf) - offset) % BufLen(buf)

\* get with an offset that wraps around the length instead of saturating at it
GetIndexWrapOffset(hd, buf, samples) ==
  LET offset == IF samples > BufLen(buf) THEN samples % BufLen(buf) ELSE samples
  IN  IF offset > hd THEN BufLen(buf) - offset + hd
                     ELSE hd - offset

\* get with the requested offset used as it is, not clamped to the length
GetIndexUnclamped(hd, buf, samples) ==
  LET offset == samples
  IN  IF offset > hd THEN BufLen(buf) - offset + hd
                     ELSE hd - offset

\* DelayLine::get: the index it reads
GetIndex(hd, buf, samples) ==
  LET offset == Min(BufLen(buf), samples)
  IN  IF offset > hd THEN BufLen(buf) - offset + hd
                     ELSE hd - offset

\* DelayLine::get, line 19: the clamped offset
GetOffset(buf, samples) == Min(BufLen(buf), samples)

\* DelayLine::get
DelayLineGet(hd, buf, samples) == buf[GetIndex(hd, buf, samples)]

\* update that advances head before it writes
UpdateBufferAfterAdvance(hd, buf, input) ==
  [buf EXCEPT ![(hd + 1) % BufLen(buf)] = input]

\* DelayLine::update: the buffer and the head it leaves
UpdateBuffer(hd, buf, input) == [buf EXCEPT ![hd] = input]
UpdateHead(hd, buf) == (hd + 1) % BufLen(buf)

---------------------------------------------------------------------------
(* Input sets *)

Samples     == {FVal(0), FVal(1)}
Inputs      == {FVal(0), FVal(1)}
SampleRates == {FVal(4)}
Feedbacks   == {FZero, FLit(1, 2)}
Mixes       == {FZero, FLit(1, 2), FVal(1)}
\* at sample rate 4: 0, 0, 1, 2, 4 and 6 samples
DelayTimes  == {FZero, FLit(1, 8), FLit(1, 4), FLit(1, 2), FVal(1), FLit(3, 2)}
Offsets     == 0 .. (MaxLen + 2)

---------------------------------------------------------------------------
(* Construction *)

NoCall == [op |-> "new", arg |-> FZero, ret |-> FZero]
NotGiven == [o |-> FZero, s |-> FZero, c |-> FZero, b |-> FZero, m |-> FZero]

\* DelayLine::new
DelayLineNew(buf) ==
  /\ head = 0
  /\ buffer = buf

\* Delay::new
DelayNew(sr, buf) ==
  /\ delay_samples = 1
  /\ delay_seconds = FDiv(FVal(1), sr)
  /\ feedback = FZero
  /\ mix = FZero
  /\ DelayLineNew(buf)
  /\ sample_rate = sr

\* OscPitchShift::default
PitchDefault ==
  /\ octaves_shift = FZero
  /\ semitones_shift = FZero
  /\ cents_shift = FZero
  /\ pitch_bend = FZero
  /\ modulation = FZero

ObsInit ==
  /\ last = NoCall
  /\ written = <<>>
  /\ xs = <<>>
  /\ ys = <<>>
  /\ given = NotGiven

\* a delay over a caller's buffer of any length and contents
Init ==
  /\ \E n \in 1 .. MaxLen, sr \in SampleRates :
       \E buf \in [0 .. n - 1 -> Samples] : DelayNew(sr, buf)
  /\ PitchDefault
  /\ ObsInit

\* a delay over a zeroed buffer
InitZero ==
  /\ \E n \in 1 .. MaxLen, sr \in SampleRates :
       DelayNew(sr, [i \in 0 .. n - 1 |-> FZero])
  /\ PitchDefault
  /\ ObsInit

---------------------------------------------------------------------------
(* DelayLine operations, called on the line directly *)

Update(input) ==
  /\ Len(written) < MaxUpdates
  /\ buffer' = UpdateBuffer(head, buffer, input)
  /\ head' = UpdateHead(head, buffer)
  /\ written' = Append(written, input)
  /\ last' = [op |-> "update", arg |-> input, ret |-> FZero]
  /\ UNCHANGED <<delayVars, pitchVars, xs, ys, given>>

Get(samples) ==
  /\ last' = [op |-> "get", arg |-> samples,
              ret |-> DelayLineGet(head, buffer, samples)]
  /\ UNCHANGED <<lineVars, delayVars, pitchVars, written, xs, ys, given>>

NextLine ==
  \/ \E input \in Inputs : Update(input)
  \/ \E samples \in Offsets : Get(samples)

SpecLine == Init /\ [][NextLine]_vars

---------------------------------------------------------------------------
(* Delay operations *)

\* Delay::set_delay_seconds; unwrap() panics when to_usize() is None
SetDelaySeconds(t) ==
  /\ ToUsizeIsSome(FMul(t, sample_rate))
  /\ delay_seconds' = t
  /\ delay_samples' = ToUsize(FMul(t, sample_rate))
  /\ UNCHANGED <<lineVars, feedback, mix, sample_rate, pitchVars, obsVars>>

\* Delay::set_feedback
SetFeedback(f) ==
  /\ feedback' = f
  /\ UNCHANGED <<lineVars, delay_samples, delay_seconds, mix, sample_rate,
                 pitchVars, obsVars>>

\* Delay::set_mix
SetMix(m) ==
  /\ mix' = m
  /\ UNCHANGED <<lineVars, delay_samples, delay_seconds, feedback, sample_rate,
                 pitchVars, obsVars>>

\* process that reads the delayed sample after its own write
ProcessSampleAfterWrite(hd, buf, samples, input) ==
  DelayLineGet(UpdateHead(hd, buf), UpdateBuffer(hd, buf, input), samples)

\* Delay::process, line 77: the delayed sample
ProcessSample(hd, buf, samples, input) == DelayLineGet(hd, buf, samples)

\* process that scales the input, not the delayed sample, by feedback
ProcessWrittenScalesInput(sample, input, fb) == FAdd(sample, FMul(input, fb))

\* process that scales the whole written value by feedback
ProcessWrittenScalesSum(sample, input, fb) == FMul(FAdd(input, sample), fb)

\* Delay::process, line 78: the value passed to update
ProcessWritten(sample, input, fb) == FAdd(input, FMul(sample, fb))

\* process with the dry and the wet share swapped
ProcessOutputSwapped(sample, input, mx) ==
  FAdd(FMul(sample, FSub(FVal(1), mx)), FMul(input, mx))

\* Delay::process, line 80: the value returned
ProcessOutput(sample, input, mx) ==
  FAdd(FMul(sample, mx), FMul(input, FSub(FVal(1), mx)))

\* Delay::process
Process(input) ==
  LET sample == ProcessSample(head, buffer, delay_samples, input)
      w      == ProcessWritten(sample, input, feedback)
      out    == ProcessOutput(sample, input, mix)
  IN  /\ buffer' = UpdateBuffer(head, buffer, w)
      /\ head' = UpdateHead(head, buffer)
      /\ written' = Append(written, w)
      /\ xs' = Append(xs, input)
      /\ ys' = Append(ys, out)
      /\ last' = [op |-> "process", arg |-> input, ret |-> out]
      /\ UNCHANGED <<delayVars, pitchVars, given>>

\* setters and process calls in any order
Next ==
  \/ \E t \in DelayTimes : SetDelaySeconds(t)
  \/ \E f \in Feedbacks : SetFeedback(f)
  \/ \E m \in Mixes : SetMix(m)
  \/ \E input \in Inputs : Len(xs) < MaxCalls /\ Process(input)

Spec == Init /\ [][Next]_vars

\* the parameters are set first and then held while the delay runs
NextRun ==
  \/ \E t \in DelayTimes : Len(xs) = 0 /\ SetDelaySeconds(t)
  \/ \E f \in Feedbacks : Len(xs) = 0 /\ SetFeedback(f)
  \/ \E m \in Mixes : Len(xs) = 0 /\ SetMix(m)
  \/ \E input \in Inputs : Len(xs) < MaxRun /\ Process(input)

SpecRun == InitZero /\ [][NextRun]_vars

---------------------------------------------------------------------------
(* OscPitchShift operations *)

Octaves     == {FVal(-1), FVal(0), FVal(1), FVal(2)}
Semitones   == {FVal(-12), FVal(0), FVal(7), FVal(12)}
Cents       == {FVal(0), FVal(50), FVal(100)}
PitchBends  == {FVal(0), FVal(2)}
Modulations == {FVal(0), FLit(1, 2)}

\* set_octaves, line 45: the stored shift
OctavesShift(octaves) == FMul(octaves, FVal(12))

\* set_cents, line 55: the stored shift
CentsShift(cents) == FMul(cents, FLit(1, 100))

\* OscPitchShift::set_octaves
SetOctaves(octaves) ==
  /\ octaves_shift' = OctavesShift(octaves)
  /\ given' = [given EXCEPT !.o = octaves]
  /\ last' = [op |-> "set_octaves", arg |-> octaves, ret |-> FZero]
  /\ UNCHANGED <<semitones_shift, cents_shift, pitch_bend, modulation>>
  /\ UNCHANGED <<lineVars, delayVars, written, xs, ys>>

\* OscPitchShift::set_semitones
SetSemitones(semitones) ==
  /\ semitones_shift' = semitones
  /\ given' = [given EXCEPT !.s = semitones]
  /\ last' = [op |-> "set_semitones", arg |-> semitones, ret |-> FZero]
  /\ UNCHANGED <<octaves_shift, cents_shift, pitch_bend, modulation>>
  /\ UNCHANGED <<lineVars, delayVars, written, xs, ys>>

\* OscPitchShift::set_cents
SetCents(cents) ==
  /\ cents_shift' = CentsShift(cents)
  /\ given' = [given EXCEPT !.c = cents]
  /\ last' = [op |-> "set_cents", arg |-> cents, ret |-> FZero]
  /\ UNCHANGED <<octaves_shift, semitones_shift, pitch_bend, modulation>>
  /\ UNCHANGED <<lineVars, delayVars, written, xs, ys>>

\* OscPitchShift::set_pitch_bend
SetPitchBend(bend) ==
  /\ pitch_bend' = bend
  /\ given' = [given EXCEPT !.b = bend]
  /\ last' = [op |-> "set_pitch_bend", arg |-> bend, ret |-> FZero]
  /\ UNCHANGED <<octaves_shift, semitones_shift, cents_shift, modulation>>
  /\ UNCHANGED <<lineVars, delayVars, written, xs, ys>>

\* set_modulation that stores into the pitch bend
SetModulationIntoPitchBend(modul) ==
  /\ pitch_bend' = modul
  /\ given' = [given EXCEPT !.m = modul]
  /\ last' = [op |-> "set_modulation", arg |-> modul, ret |-> FZero]
  /\ UNCHANGED <<octaves_shift, semitones_shift, cents_shift, modulation>>
  /\ UNCHANGED <<lineVars, delayVars, written, xs, ys>>

\* OscPitchShift::set_modulation
SetModulation(modul) ==
  /\ modulation' = modul
  /\ given' = [given EXCEPT !.m = modul]
  /\ last' = [op |-> "set_modulation", arg |-> modul, ret |-> FZero]
  /\ UNCHANGED <<octaves_shift, semitones_shift, cents_shift, pitch_bend>>
  /\ UNCHANGED <<lineVars, delayVars, written, xs, ys>>

\* multiplier, lines 70-74
TotalSemitonesShift ==
  FAdd(FAdd(FAdd(FAdd(octaves_shift, semitones_shift), cents_shift),
            pitch_bend), modulation)

\* the exponent taken in semitones instead of octaves
PitchExponentInSemitones(total) == total

\* multiplier, line 78: the exponent
PitchExponent(total) == FDiv(total, FVal(12))

\* the largest integer <= a
Floor(a) == a[1] \div a[2]

\* 2^i for an integer i
RECURSIVE Pow2(_)
Pow2(i) == IF i = 0 THEN FVal(1)
           ELSE IF i > 0 THEN FMul(FVal(2), Pow2(i - 1))
           ELSE FDiv(Pow2(i + 1), FVal(2))

\* 2.0.powf(q) = whole * 2^frac with 0 <= frac < 1: the power of two of the
\* integer part of q, exactly, and the fractional part of q left in the
\* exponent (2^frac is irrational unless frac = 0)
Powf2(q) == [whole |-> Pow2(Floor(q)), frac |-> FSub(q, FVal(Floor(q)))]

\* OscPitchShift::multiplier, the value returned
MultiplierValue == Powf2(PitchExponent(TotalSemitonesShift))

\* OscPitchShift::multiplier (&self)
Multiplier ==
  /\ last' = [op |-> "multiplier", arg |-> FZero, ret |-> MultiplierValue]
  /\ UNCHANGED <<lineVars, delayVars, pitchVars, written, xs, ys, given>>

NextPitch ==
  \/ \E octaves \in Octaves : SetOctaves(octaves)
  \/ \E semitones \in Semitones : SetSemitones(semitones)
  \/ \E cents \in Cents : SetCents(cents)
  \/ \E bend \in PitchBends : SetPitchBend(bend)
  \/ \E modul \in Modulations : SetModulation(modul)
  \/ Multiplier

SpecPitch == InitZero /\ [][NextPitch]_vars

---------------------------------------------------------------------------
(* Claims about the delay line *)

N == BufLen(buffer)

\* C1: once at least N updates were made on a line that started with head = 0,
\* get(k) for 1 <= k <= N returns the value passed to the k-th most recent
\* update.
C1_GetReturnsKthLatest ==
  (last.op = "get" /\ Len(written) >= N /\ last.arg >= 1 /\ last.arg <= N)
    => last.ret = written[Len(written) - last.arg + 1]

\* a get(N) on a line of length >= 3 whose head has wrapped, returning a 1
\* while the latest written value is a 0
C1_Witness ==
  /\ last.op = "get" /\ N >= 3 /\ last.arg = N
  /\ Len(written) > N /\ head # 0
  /\ last.ret = FVal(1)
  /\ written[Len(written)] = FVal(0)

\* C2: in every reachable state, get(k) for k > N returns what get(N)
\* returns, which is the oldest stored sample, the one at head.
C2_GetSaturates ==
  (last.op = "get" /\ last.arg > N)
    => /\ last.ret = DelayLineGet(head, buffer, N)
       /\ last.ret = buffer[head]

\* a get(N + 2) with head in the middle of the buffer, where the oldest and the
\* latest sample differ
C2_Witness ==
  /\ last.op = "get" /\ last.arg = N + 2
  /\ N >= 2 /\ head = 1
  /\ Len(written) > N
  /\ written[Len(written)] # written[Len(written) - N + 1]
  /\ last.ret = written[Len(written) - N + 1]

\* C10, the state part: head stays within 0 .. N-1, has advanced by the number
\* of updates modulo N, and designates the oldest stored sample; the latest N
\* updates sit in N different slots.
C10_HeadInv ==
  /\ head \in 0 .. N - 1
  /\ head = Len(written) % N
  /\ Len(written) >= N => buffer[head] = written[Len(written) - N + 1]
  /\ \A j \in 1 .. Len(written) :
       j > Len(written) - N => buffer[(j - 1) % N] = written[j]

\* C10, the step part: an update writes its argument at head, leaves the other
\* slots and the length alone, and moves head to (head + 1) mod N.
C10_UpdateStep ==
  Len(written') = Len(written) + 1
    => /\ DOMAIN buffer' = DOMAIN buffer
       /\ buffer'[head] = written'[Len(written')]
       /\ \A i \in DOMAIN buffer : i # head => buffer'[i] = buffer[i]
       /\ head' = (head + 1) % N

\* C10: update writes at head and advances head modulo N, so that head is
\* always within range and always the next slot to be overwritten.
C10_UpdateAdvancesHead == [](C10_HeadInv) /\ [][C10_UpdateStep]_vars

\* N updates on a line of length >= 3 brought head back to 0
C10_Witness ==
  /\ last.op = "update" /\ N >= 3
  /\ Len(written) = N /\ head = 0
  /\ \E i \in DOMAIN buffer : buffer[i] # buffer[0]

---------------------------------------------------------------------------
(* Claims about the delay effect *)

\* C3: the integer sample offset delay_samples is never 0: it is 1 after
\* Delay::new and stays >= 1 whatever set_delay_seconds(t), t >= 0, and
\* process calls are made.
C3_DelaySamplesNeverZero == delay_samples >= 1

\* C4: a process call made with mix = 0 returns exactly its input, whatever
\* the feedback, the offset and the buffer contents are.
C4_DryOutputIsInput ==
  [][(Len(xs') = Len(xs) + 1 /\ mix = FZero)
       => /\ last'.op = "process"
          /\ last'.ret = last'.arg
          /\ ys'[Len(ys')] = xs'[Len(xs')]]_vars

\* a process call with mix = 0 and input 0 that read a nonzero delayed sample
\* and recirculated it
C4_Witness ==
  /\ last.op = "process" /\ mix = FZero /\ feedback # FZero
  /\ last.arg = FZero /\ last.ret = FZero
  /\ written[Len(written)] # FZero

\* x[n], 1-based, with 0 before the first call
Past(seq, n) == IF n >= 1 THEN seq[n] ELSE FZero

\* C5: with feedback = 0 and an offset D, 1 <= D <= N, held over the run on a
\* zeroed buffer, the n-th process call returns x[n]*(1-mix) + mix*x[n-D]; the
\* line holds raw inputs only; with mix = 1 the output is x[n-D].
C5_NoFeedbackIsPureDelay ==
  (feedback = FZero /\ delay_samples >= 1 /\ delay_samples <= N)
    => /\ written = xs
       /\ \A n \in 1 .. Len(ys) :
            /\ ys[n] = FAdd(FMul(xs[n], FSub(FVal(1), mix)),
                             FMul(mix, Past(xs, n - delay_samples)))
            /\ mix = FVal(1) => ys[n] = Past(xs, n - delay_samples)

\* a run without feedback, fully wet, with 1 < D < N, whose latest output is
\* the 1 given D calls earlier while the latest input is 0
C5_Witness ==
  /\ feedback = FZero /\ mix = FVal(1)
  /\ delay_samples > 1 /\ delay_samples < N
  /\ Len(xs) > N
  /\ xs[Len(xs)] = FZero
  /\ ys[Len(ys)] = FVal(1)

Half == FLit(1, 2)
Impulse == <<FVal(1), FZero, FZero, FZero, FZero, FZero, FZero, FZero>>
ImpulseResponse == <<Half, FZero, FZero, FZero, Half, FZero, FZero, FZero>>

\* C6: over a zeroed 4-sample buffer with delay_samples = 4, feedback = 0.5 and
\* mix = 0.5, the impulse [1,0,0,0,0,0,0,0] yields [0.5,0,0,0,0.5,0,0,0] and
\* leaves 0.5 in the slot that held the impulse.
C6_ImpulseResponse ==
  (N = 4 /\ delay_samples = 4 /\ feedback = Half /\ mix = Half
     /\ Len(xs) <= Len(Impulse) /\ xs = SubSeq(Impulse, 1, Len(xs)))
    => /\ ys = SubSeq(ImpulseResponse, 1, Len(xs))
       /\ Len(xs) = Len(Impulse) => buffer[0] = Half

\* the eight calls of the scenario were made
C6_Witness ==
  /\ N = 4 /\ delay_samples = 4 /\ feedback = Half /\ mix = Half
  /\ xs = Impulse
  /\ last.op = "process"

\* The reference delay keeps every written sample w[1..]; at its n-th call it
\* reads the one written e calls earlier, 0 before the first.
RefRead(w, e, n) == Past(w, n - e)

\* C7: for an offset D >= 1 held over the run on a zeroed buffer, with
\* E = min(D, N), the ring writes and returns what the reference delay with
\* the complete history does: f = w[n-E], w[n] = x[n] + f*feedback,
\* y[n] = f*mix + x[n]*(1-mix).
C7_RingMatchesReference ==
  delay_samples >= 1
    => LET e == Min(delay_samples, N)
       IN  \A n \in 1 .. Len(xs) :
             LET f == RefRead(written, e, n)
             IN  /\ written[n] = FAdd(xs[n], FMul(f, feedback))
                 /\ ys[n] = FAdd(FMul(f, mix), FMul(xs[n], FSub(FVal(1), mix)))

\* a run with feedback and an offset above the buffer length, in which a
\* sample that went twice through the line is heard
C7_Witness ==
  /\ delay_samples > N /\ N >= 2
  /\ feedback = Half /\ mix = Half
  /\ Len(xs) > 2 * N
  /\ ys[Len(ys)] = FLit(1, 8)

---------------------------------------------------------------------------
(* Claims about the pitch shift *)

\* a value that is exactly the rational r
Exactly(r) == [whole |-> r, frac |-> FZero]

IsInteger(a) == a[2] = 1

\* C8: multiplier() returns 1 with all five contributions at 0, exactly 2 after
\* set_octaves(1) alone and after set_semitones(12) alone, and 2^((12o+s)/12)
\* for integers o, s with 12o+s a multiple of 12 and the rest at 0.
C8_MultiplierExactPowers ==
  (last.op = "multiplier"
     /\ given.c = FZero /\ given.b = FZero /\ given.m = FZero)
    => /\ (given.o = FZero /\ given.s = FZero) => last.ret = Exactly(FVal(1))
       /\ (given.o = FVal(1) /\ given.s = FZero) => last.ret = Exactly(FVal(2))
       /\ (given.o = FZero /\ given.s = FVal(12)) => last.ret = Exactly(FVal(2))
       /\ (IsInteger(given.o) /\ IsInteger(given.s)
             /\ (12 * given.o[1] + given.s[1]) % 12 = 0)
            => last.ret = Exactly(Pow2((12 * given.o[1] + given.s[1]) \div 12))

\* multiplier() after set_octaves(-1) and set_semitones(-12): a quarter
C8_Witness ==
  /\ last.op = "multiplier"
  /\ given.c = FZero /\ given.b = FZero /\ given.m = FZero
  /\ given.o = FVal(-1) /\ given.s = FVal(-12)
  /\ last.ret = Exactly(FLit(1, 4))

\* C9, the state part: each stored contribution is the latest value given to
\* its own setter (0 if never set), scaled to semitones, and the total used by
\* multiplier() is 12*o + s + c/100 + b + m.
C9_TotalInv ==
  /\ octaves_shift = FMul(FVal(12), given.o)
  /\ semitones_shift = given.s
  /\ cents_shift = FDiv(given.c, FVal(100))
  /\ pitch_bend = given.b
  /\ modulation = given.m
  /\ TotalSemitonesShift =
       FAdd(FMul(FVal(12), given.o),
            FAdd(given.s, FAdd(FDiv(given.c, FVal(100)),
                               FAdd(given.b, given.m))))

Changed(a, b) == IF a # b THEN 1 ELSE 0

\* C9, the step part: a step changes at most one stored contribution, and a
\* multiplier() call changes none.
C9_SetterStep ==
  /\ Changed(octaves_shift', octaves_shift)
       + Changed(semitones_shift', semitones_shift)
       + Changed(cents_shift', cents_shift)
       + Changed(pitch_bend', pitch_bend)
       + Changed(modulation', modulation) <= 1
  /\ last'.op = "multiplier" => UNCHANGED <<pitchVars, given>>

\* C9: the setters overwrite their own contribution only, so the total
\* semitone shift depends on the latest value given to each setter and not on
\* the order of the calls; multiplier() changes no state.
C9_OrderInvariant == [](C9_TotalInv) /\ [][C9_SetterStep]_vars

\* all five setters were called with a nonzero value, the cents last
C9_Witness ==
  /\ last.op = "set_cents"
  /\ given.o # FZero /\ given.s # FZero /\ given.c = FVal(50)
  /\ given.b # FZero /\ given.m # FZero
  /\ cents_shift = FLit(1, 2)

---------------------------------------------------------------------------
(* Claims about the per-sample path *)

\* the usize subtraction made by get for a requested offset, as <<a, b>> for
\* a - b: len - offset on the wrapping branch, head - offset on the other
GetSubtraction(hd, buf, samples) ==
  IF GetOffset(buf, samples) > hd
    THEN <<BufLen(buf), GetOffset(buf, samples)>>
    ELSE <<hd, GetOffset(buf, samples)>>

\* C11: after any sequence of setter and process calls, the index that
\* DelayLine::get computes is within 0 .. N-1 for the delay_samples in force
\* and for every other offset (0, 1..N, above N) at the head reached, and
\* neither head - offset nor len - offset underflows, so process never
\* indexes out of range.
C11_GetIndexInRange ==
  LET len == N
  IN  /\ head >= 0 /\ head < len
      /\ \A samples \in Offsets \cup {delay_samples} :
           LET index == GetIndex(head, buffer, samples)
               sub   == GetSubtraction(head, buffer, samples)
           IN  /\ index >= 0 /\ index < len
               /\ sub[1] >= sub[2]

\* process calls made with head in the middle of the buffer and an offset of 0
\* in force, which reads the slot at head itself
C11_Witness ==
  /\ last.op = "process" /\ Len(xs) = MaxCalls
  /\ N >= 3 /\ head = 2
  /\ delay_samples = 0
  /\ GetIndex(head, buffer, delay_samples) = head

\* process calls made with an offset above the buffer length in force
C11_WitnessAbove ==
  /\ last.op = "process" /\ Len(xs) = MaxCalls
  /\ N >= 2 /\ head # 0
  /\ delay_samples > N

===========================================================================
